---- MODULE Spec2Model ----
(***************************************************************************)
(* Model of src/main.py: the AIPaperGrader pipeline                        *)
(*   __init__ -> _check_objective_metrics -> _evaluate_with_llm ->          *)
(*   grade_paper's aggregation -> print_report, run by the __main__ block.  *)
(*                                                                         *)
(* Python values are modelled as follows.                                  *)
(*   dict              a function whose DOMAIN is the set of keys present   *)
(*   list              a sequence                                          *)
(*   None / a value v  <<>> / <<v>>  (only where the code can hold None)    *)
(*   float             an integer number of hundredths (readability),      *)
(*                     of tenths (temperature)                             *)
(*   exception         the name of the call that raised, in `error`        *)
(***************************************************************************)
EXTENDS Integers, Sequences, FiniteSets, TLC

VARIABLES
    pc,                 \* position of the run: "init", "metrics", "evaluate", "compile", "print", "done", "failed"
    rubric,             \* grade_paper's rubric argument (a dict)
    student_paper,      \* grade_paper's student_paper argument (a string, as a sequence of characters)
    attrs,              \* names of the attributes __init__ has set on the grader
    lang_tool,          \* self.lang_tool: "unset", "tool" or "None"
    objective_results,  \* result of _check_objective_metrics, None until it returned
    llm_outcome,        \* what agent.generate_response did in _evaluate_with_llm, None until called
    llm_results,        \* result of _evaluate_with_llm, None until it returned
    final_grade,        \* the report grade_paper returns, None until compiled
    requests,           \* the requests sent to the language-model service, in order
    grammar_calls,      \* number of lang_tool.check calls made
    rendered,           \* TRUE once print_report has completed
    error               \* "none", or the call whose exception left its method

vars == <<pc, rubric, student_paper, attrs, lang_tool, objective_results, llm_outcome,
          llm_results, final_grade, requests, grammar_calls, rendered, error>>

(***************************************************************************)
(* Bounds of the model.                                                    *)
(***************************************************************************)
MaxPaperLen == 2     \* characters in a modelled paper
MaxCriteria == 2     \* criteria in a generated rubric
MaxBreakdown == 2    \* entries in a generated criteria_breakdown
MaxMatches == 1      \* matches the grammar service reports
MaxResponseEntries == 1  \* breakdown entries in a generated service response

(***************************************************************************)
(* Python None and present values.                                         *)
(***************************************************************************)
None == <<>>
Some(v) == <<v>>

\* dict.get(key) with no default: None when the key is absent.
Get(d, key) == IF key \in DOMAIN d THEN Some(d[key]) ELSE None

\* dict.get(key, default).
GetOr(d, key, default) == IF key \in DOMAIN d THEN d[key] ELSE default

\* sum(item.get(key, 0) for item in items)
RECURSIVE SumField(_, _)
SumField(items, key) ==
    IF items = <<>> THEN 0
    ELSE GetOr(Head(items), key, 0) + SumField(Tail(items), key)

\* All sequences over S of length at most n.
SeqsUpTo(S, n) == UNION {[1..k -> S] : k \in 0..n}

(***************************************************************************)
(* Outcomes of a call to an external collaborator: it raises or returns.   *)
(***************************************************************************)
Raise == [raises |-> TRUE]
Return(v) == [raises |-> FALSE, value |-> v]

(***************************************************************************)
(* Input domains.                                                          *)
(***************************************************************************)
EmptyDict == [k \in {} |-> 0]

\* GRADING_RUBRIC of the __main__ block. The "description" field of a criterion
\* is only serialised into the prompt and is left out of the model.
SampleRubric ==
    [criteria |-> << [criterion |-> "Argument and Analysis", max_score |-> 40],
                     [criterion |-> "Use of Evidence", max_score |-> 30],
                     [criterion |-> "Structure and Organization", max_score |-> 20],
                     [criterion |-> "Clarity and Mechanics", max_score |-> 10] >>]

\* Criteria of the generated rubrics: with a max_score, or without the key.
RubricCriteria ==
    {[criterion |-> "Argument and Analysis", max_score |-> m] : m \in {10, 40}}
        \cup {[criterion |-> "Argument and Analysis"]}

\* Rubrics handed to grade_paper: the sample, generated ones, and a dict
\* without the "criteria" key.
Rubrics ==
    {SampleRubric, EmptyDict}
        \cup {[criteria |-> cs] : cs \in SeqsUpTo(RubricCriteria, MaxCriteria)}

\* Entries a model may put in criteria_breakdown: scores inside and outside
\* 0..max_score, and an entry without the "score" key.
CriterionResults ==
    {[criterion |-> "Argument and Analysis", score |-> s, max_score |-> 40,
      feedback |-> "Expand the analysis."] : s \in {-5, 35, 45}}
        \cup {[criterion |-> "Argument and Analysis", max_score |-> 40,
               feedback |-> "Expand the analysis."]}

\* The JSON objects json.loads can return for a model's answer: each of the
\* two top-level keys present or absent.
EvaluationsOver(breakdowns) ==
    {[summary_feedback |-> "A solid essay.", criteria_breakdown |-> b] : b \in breakdowns}
        \cup {[criteria_breakdown |-> b] : b \in breakdowns}
        \cup {[summary_feedback |-> "A solid essay."], EmptyDict}

\* The answer of the end-to-end scenario: 35/25/18/9 against the sample rubric.
SampleEvaluation ==
    [summary_feedback |-> "A solid essay.",
     criteria_breakdown |->
        << [criterion |-> "Argument and Analysis", score |-> 35, max_score |-> 40,
            feedback |-> "Expand the analysis."],
           [criterion |-> "Use of Evidence", score |-> 25, max_score |-> 30,
            feedback |-> "Expand the analysis."],
           [criterion |-> "Structure and Organization", score |-> 18, max_score |-> 20,
            feedback |-> "Expand the analysis."],
           [criterion |-> "Clarity and Mechanics", score |-> 9, max_score |-> 10,
            feedback |-> "Expand the analysis."] >>]

Evaluations ==
    {SampleEvaluation} \cup EvaluationsOver(SeqsUpTo(CriterionResults, MaxBreakdown))

\* A response body of the language-model service: text that json.loads
\* rejects, or the text of a JSON object.
Malformed == [wellformed |-> FALSE]
JsonText(obj) == [wellformed |-> TRUE, json |-> obj]

\* json.loads(text): raises on malformed text, returns the object otherwise.
JsonLoads(text) == IF text.wellformed THEN Return(text.json) ELSE Raise

\* What a call to the language-model service can do: raise (transport or
\* service error) or return a body.
ServiceOutcomes ==
    {Raise, Return(Malformed)}
        \cup {Return(JsonText(e)) :
                e \in {SampleEvaluation} \cup EvaluationsOver(SeqsUpTo(CriterionResults, MaxResponseEntries))}

\* Student papers: strings over a letter and a blank.
Papers == SeqsUpTo({"a", " "}, MaxPaperLen)

\* Values textstat.flesch_reading_ease returns, in hundredths.
Readabilities == {-1050, 6532}

ReadabilityOutcomes == {Raise} \cup {Return(r) : r \in Readabilities}

\* lang_tool.check: raises, or returns a list of matches (its length is all
\* the code reads).
CheckOutcomes == {Raise} \cup {Return(n) : n \in 0..MaxMatches}

(***************************************************************************)
(* AIPaperGrader.__init__                                                  *)
(***************************************************************************)
\* ConstructError without the try/except around LanguageTool('en-US').
ConstructErrorToolUncaught(agent_ok, tool_ok) ==
    IF ~agent_ok THEN "Agent" ELSE IF ~tool_ok THEN "LanguageTool" ELSE "none"

\* The exception that leaves __init__: Agent(...) is built outside any try;
\* LanguageTool('en-US') is built inside try/except Exception.
ConstructError(agent_ok, tool_ok) ==
    IF ~agent_ok THEN "Agent" ELSE "none"

\* self.lang_tool after the try/except.
LangToolInit(tool_ok) == IF tool_ok THEN "tool" ELSE "None"

\* The attributes __init__ assigns on self. It assigns no self.client and no
\* self.model.
InitAttributes == {"agent", "lang_tool"}

Construct ==
    /\ pc = "init"
    /\ \E agent_ok \in BOOLEAN, tool_ok \in BOOLEAN :
          LET err == ConstructError(agent_ok, tool_ok) IN
          IF err # "none"
          THEN /\ pc' = "failed"
               /\ error' = err
               /\ UNCHANGED <<attrs, lang_tool>>
          ELSE /\ pc' = "metrics"
               /\ attrs' = InitAttributes
               /\ lang_tool' = LangToolInit(tool_ok)
               /\ UNCHANGED error
    /\ UNCHANGED <<rubric, student_paper, objective_results, llm_outcome, llm_results,
                   final_grade, requests, grammar_calls, rendered>>

(***************************************************************************)
(* AIPaperGrader._check_objective_metrics                                  *)
(***************************************************************************)
IsSpace(c) == c = " "

\* len(paper_text.split()): the number of maximal runs of non-blank characters.
WordCount(text) ==
    Cardinality({i \in 1..Len(text) :
                    /\ ~IsSpace(text[i])
                    /\ (i = 1 \/ IsSpace(text[i - 1]))})

\* CheckObjectiveMetricsRun without the `if self.lang_tool:` guard: check is
\* called whatever self.lang_tool is.
CheckObjectiveMetricsRunUnguarded(text, tool, flesch, check) ==
    IF flesch.raises
    THEN [error |-> "textstat.flesch_reading_ease", calls |-> 0]
    ELSE IF check.raises
    THEN [error |-> "lang_tool.check", calls |-> 1]
    ELSE [error |-> "none", calls |-> 1,
          result |-> [word_count |-> WordCount(text),
                      readability_score_flesch |-> flesch.value,
                      grammar_and_spelling_errors |-> check.value]]

\* The method's run on `text` with self.lang_tool = tool, given what the two
\* collaborators do when called: the exception that leaves it ("none" when it
\* returns), the number of lang_tool.check calls made, and the dict returned.
CheckObjectiveMetricsRun(text, tool, flesch, check) ==
    IF flesch.raises
    THEN [error |-> "textstat.flesch_reading_ease", calls |-> 0]
    ELSE IF tool = "tool"
    THEN IF check.raises
         THEN [error |-> "lang_tool.check", calls |-> 1]
         ELSE [error |-> "none", calls |-> 1,
               result |-> [word_count |-> WordCount(text),
                           readability_score_flesch |-> flesch.value,
                           grammar_and_spelling_errors |-> check.value]]
    ELSE [error |-> "none", calls |-> 0,
          result |-> [word_count |-> WordCount(text),
                      readability_score_flesch |-> flesch.value,
                      grammar_and_spelling_errors |-> 0]]

CheckObjectiveMetrics ==
    /\ pc = "metrics"
    /\ \E flesch \in ReadabilityOutcomes, check \in CheckOutcomes :
          LET run == CheckObjectiveMetricsRun(student_paper, lang_tool, flesch, check) IN
          /\ grammar_calls' = grammar_calls + run.calls
          /\ IF run.error # "none"
             THEN /\ pc' = "failed"
                  /\ error' = run.error
                  /\ UNCHANGED objective_results
             ELSE /\ pc' = "evaluate"
                  /\ objective_results' = Some(run.result)
                  /\ UNCHANGED error
    /\ UNCHANGED <<rubric, student_paper, attrs, lang_tool, llm_outcome, llm_results,
                   final_grade, requests, rendered>>

(***************************************************************************)
(* AIPaperGrader._evaluate_with_llm                                        *)
(***************************************************************************)
\* temperature=0.2 of the chat.completions.create call, in tenths.
LowTemperature == 2

\* The call self.agent.generate_response(system_prompt, prompt): it passes no
\* sampling setting and no response format.
AgentRequest == [call |-> "agent.generate_response"]

\* The call self.client.chat.completions.create(..., response_format=
\* {"type": "json_object"}, temperature=0.2).
ClientRequest ==
    [call |-> "client.chat.completions.create",
     response_format |-> "json_object",
     temperature |-> LowTemperature]

\* The names bound in _evaluate_with_llm when the create call is reached.
LocalNames ==
    {"self", "assignment_prompt", "rubric", "student_paper", "rubric_str",
     "user_prompt", "response"}

\* The create call's callee and arguments can be evaluated only if self.client
\* and self.model exist and system_prompt is bound: otherwise AttributeError
\* or NameError is raised inside the try.
CreateCallEvaluable(self_attrs) ==
    /\ "client" \in self_attrs
    /\ "model" \in self_attrs
    /\ "system_prompt" \in LocalNames

\* The value returned by the except branch.
DegradedResult ==
    [summary_feedback |-> "Error: Could not get evaluation from the AI model.",
     criteria_breakdown |-> <<>>]

\* EvaluateWithLLMRun with an except clause that catches only the JSON
\* decoding error: an exception of the service call leaves the method.
EvaluateWithLLMRunNarrowExcept(self_attrs, agent_outcome, client_outcome) ==
    IF agent_outcome.raises
    THEN [error |-> "agent.generate_response", sent |-> <<AgentRequest>>]
    ELSE IF ~CreateCallEvaluable(self_attrs)
    THEN [error |-> "client.chat.completions.create", sent |-> <<AgentRequest>>]
    ELSE IF client_outcome.raises
    THEN [error |-> "client.chat.completions.create",
          sent |-> <<AgentRequest, ClientRequest>>]
    ELSE LET parsed == JsonLoads(client_outcome.value) IN
         [error |-> "none", sent |-> <<AgentRequest, ClientRequest>>,
          result |-> IF parsed.raises THEN DegradedResult ELSE parsed.value]

\* The method's run given what the two service calls do when made: the
\* exception that leaves it ("none": except Exception catches everything
\* raised in the try), the requests sent, and the dict returned.
EvaluateWithLLMRun(self_attrs, agent_outcome, client_outcome) ==
    IF agent_outcome.raises
    THEN [error |-> "none", sent |-> <<AgentRequest>>, result |-> DegradedResult]
    ELSE IF ~CreateCallEvaluable(self_attrs)
    THEN [error |-> "none", sent |-> <<AgentRequest>>, result |-> DegradedResult]
    ELSE IF client_outcome.raises
    THEN [error |-> "none", sent |-> <<AgentRequest, ClientRequest>>,
          result |-> DegradedResult]
    ELSE LET parsed == JsonLoads(client_outcome.value) IN
         [error |-> "none", sent |-> <<AgentRequest, ClientRequest>>,
          result |-> IF parsed.raises THEN DegradedResult ELSE parsed.value]

EvaluateWithLLM ==
    /\ pc = "evaluate"
    /\ \E agent_outcome \in ServiceOutcomes :
       \E client_outcome \in IF CreateCallEvaluable(attrs) THEN ServiceOutcomes ELSE {Raise} :
          LET run == EvaluateWithLLMRun(attrs, agent_outcome, client_outcome) IN
          /\ llm_outcome' = Some(agent_outcome)
          /\ requests' = requests \o run.sent
          /\ IF run.error # "none"
             THEN /\ pc' = "failed"
                  /\ error' = run.error
                  /\ UNCHANGED llm_results
             ELSE /\ pc' = "compile"
                  /\ llm_results' = Some(run.result)
                  /\ UNCHANGED error
    /\ UNCHANGED <<rubric, student_paper, attrs, lang_tool, objective_results,
                   final_grade, grammar_calls, rendered>>

(***************************************************************************)
(* AIPaperGrader.grade_paper: the aggregation after the two calls          *)
(***************************************************************************)
\* FinalGrade with the maximum summed over the model's breakdown instead of
\* the rubric.
FinalGradeMaxFromBreakdown(rubric_arg, objective, llm) ==
    [overall_score |-> SumField(GetOr(llm, "criteria_breakdown", <<>>), "score"),
     max_possible_score |-> SumField(GetOr(llm, "criteria_breakdown", <<>>), "max_score"),
     summary_feedback |-> Get(llm, "summary_feedback"),
     criteria_breakdown |-> Get(llm, "criteria_breakdown"),
     objective_metrics |-> objective]

\* sum(item.get('score', item.get('max_score', 0)) for item in items)
RECURSIVE SumScoreOrMax(_)
SumScoreOrMax(items) ==
    IF items = <<>> THEN 0
    ELSE GetOr(Head(items), "score", GetOr(Head(items), "max_score", 0))
            + SumScoreOrMax(Tail(items))

\* FinalGrade with an entry that has no score counted at its max_score.
FinalGradeMissingScoreAsMax(rubric_arg, objective, llm) ==
    [overall_score |-> SumScoreOrMax(GetOr(llm, "criteria_breakdown", <<>>)),
     max_possible_score |-> SumField(GetOr(rubric_arg, "criteria", <<>>), "max_score"),
     summary_feedback |-> Get(llm, "summary_feedback"),
     criteria_breakdown |-> Get(llm, "criteria_breakdown"),
     objective_metrics |-> objective]

HasScore(item) == "score" \in DOMAIN item

\* FinalGrade with the entries that have no score dropped from the report.
FinalGradeDropsUnscored(rubric_arg, objective, llm) ==
    [overall_score |-> SumField(GetOr(llm, "criteria_breakdown", <<>>), "score"),
     max_possible_score |-> SumField(GetOr(rubric_arg, "criteria", <<>>), "max_score"),
     summary_feedback |-> Get(llm, "summary_feedback"),
     criteria_breakdown |->
        IF "criteria_breakdown" \in DOMAIN llm
        THEN Some(SelectSeq(llm.criteria_breakdown, HasScore))
        ELSE None,
     objective_metrics |-> objective]

\* The dict built from the rubric, the metrics and the evaluation.
FinalGrade(rubric_arg, objective, llm) ==
    [overall_score |-> SumField(GetOr(llm, "criteria_breakdown", <<>>), "score"),
     max_possible_score |-> SumField(GetOr(rubric_arg, "criteria", <<>>), "max_score"),
     summary_feedback |-> Get(llm, "summary_feedback"),
     criteria_breakdown |-> Get(llm, "criteria_breakdown"),
     objective_metrics |-> objective]

Compile ==
    /\ pc = "compile"
    /\ final_grade' = Some(FinalGrade(rubric, objective_results[1], llm_results[1]))
    /\ pc' = "print"
    /\ UNCHANGED <<rubric, student_paper, attrs, lang_tool, objective_results, llm_outcome,
                   llm_results, requests, grammar_calls, rendered, error>>

(***************************************************************************)
(* AIPaperGrader.print_report                                              *)
(***************************************************************************)
\* The keys print_report subscripts on every breakdown entry.
ItemKeys == {"criterion", "score", "max_score", "feedback"}

\* PrintReportError of a print_report that reads the first breakdown entry
\* before the loop: an empty breakdown raises IndexError.
PrintReportErrorOnEmpty(grade_report) ==
    IF grade_report.criteria_breakdown = None
    THEN "print_report"
    ELSE IF grade_report.criteria_breakdown[1] = <<>>
    THEN "print_report"
    ELSE IF \E i \in 1..Len(grade_report.criteria_breakdown[1]) :
                ~({"criterion", "score", "max_score", "feedback"}
                    \subseteq DOMAIN grade_report.criteria_breakdown[1][i])
    THEN "print_report"
    ELSE "none"

\* The exception that leaves print_report ("none" when it completes):
\* iterating a criteria_breakdown of None raises TypeError, item[key] on an
\* entry without the key raises KeyError, and formatting a missing
\* readability score with :.2f raises TypeError.
PrintReportError(grade_report) ==
    IF grade_report.criteria_breakdown = None
    THEN "print_report"
    ELSE IF \E i \in 1..Len(grade_report.criteria_breakdown[1]) :
                ~(ItemKeys \subseteq DOMAIN grade_report.criteria_breakdown[1][i])
    THEN "print_report"
    ELSE IF "readability_score_flesch" \notin DOMAIN grade_report.objective_metrics
    THEN "print_report"
    ELSE "none"

PrintReport ==
    /\ pc = "print"
    /\ LET err == PrintReportError(final_grade[1]) IN
          IF err # "none"
          THEN /\ pc' = "failed"
               /\ error' = err
               /\ UNCHANGED rendered
          ELSE /\ pc' = "done"
               /\ rendered' = TRUE
               /\ UNCHANGED error
    /\ UNCHANGED <<rubric, student_paper, attrs, lang_tool, objective_results, llm_outcome,
                   llm_results, final_grade, requests, grammar_calls>>

(***************************************************************************)
(* The run of the __main__ block: construct the grader, grade one paper,   *)
(* print the report; any exception ends the run with a message.            *)
(***************************************************************************)
Init ==
    /\ pc = "init"
    /\ rubric \in Rubrics
    /\ student_paper \in Papers
    /\ attrs = {}
    /\ lang_tool = "unset"
    /\ objective_results = None
    /\ llm_outcome = None
    /\ llm_results = None
    /\ final_grade = None
    /\ requests = <<>>
    /\ grammar_calls = 0
    /\ rendered = FALSE
    /\ error = "none"

Next ==
    \/ Construct
    \/ CheckObjectiveMetrics
    \/ EvaluateWithLLM
    \/ Compile
    \/ PrintReport

Spec == Init /\ [][Next]_vars

(***************************************************************************)
(* The aggregation and the rendering applied to every evaluation          *)
(* json.loads can hand back, every rubric and every metrics dict.          *)
(***************************************************************************)
MetricsResults ==
    {[word_count |-> WordCount(p), readability_score_flesch |-> r,
      grammar_and_spelling_errors |-> g] :
        p \in Papers, r \in Readabilities, g \in 0..MaxMatches}

InitCompile ==
    /\ pc = "compile"
    /\ rubric \in Rubrics
    /\ student_paper = <<>>
    /\ attrs = InitAttributes
    /\ lang_tool = "tool"
    /\ objective_results \in {Some(m) : m \in MetricsResults}
    /\ llm_outcome = None
    /\ llm_results \in {Some(e) : e \in Evaluations \cup {DegradedResult}}
    /\ final_grade = None
    /\ requests = <<>>
    /\ grammar_calls = 0
    /\ rendered = FALSE
    /\ error = "none"

NextCompile ==
    \/ Compile
    \/ PrintReport

SpecCompile == InitCompile /\ [][NextCompile]_vars

(***************************************************************************)
(* Properties.                                                             *)
(***************************************************************************)
\* The sum of max_score over a list of dicts, an absent key counting 0,
\* written as a fold over the indices.
FieldTotal(items, key) ==
    LET F[i \in 0..Len(items)] ==
            IF i = 0 THEN 0
            ELSE F[i - 1] + (IF key \in DOMAIN items[i] THEN items[i][key] ELSE 0)
    IN F[Len(items)]

RubricCriteriaOf(r) == IF "criteria" \in DOMAIN r THEN r.criteria ELSE <<>>

\* The failures of the language-model evaluation the claims name: the call
\* raised (transport or service error) or the body is not parseable JSON.
EvaluationFailed ==
    /\ llm_outcome # None
    /\ \/ llm_outcome[1].raises
       \/ ~llm_outcome[1].value.wellformed

\* C1: in every report grade_paper returns, whatever the language-model call
\* did, max_possible_score is the sum of max_score over the rubric's criteria
\* (100 for the sample rubric).
C1_MaxPossibleScoreFromRubric ==
    final_grade # None =>
        /\ final_grade[1].max_possible_score = FieldTotal(RubricCriteriaOf(rubric), "max_score")
        /\ (rubric = SampleRubric => final_grade[1].max_possible_score = 100)

\* C1 witness: a report for a rubric worth 50 after the service answered with a
\* well-formed one-entry evaluation whose own max_score is 40.
C1_Witness ==
    /\ final_grade # None
    /\ final_grade[1].max_possible_score = 50
    /\ llm_outcome # None
    /\ ~llm_outcome[1].raises
    /\ llm_outcome[1].value.wellformed
    /\ "criteria_breakdown" \in DOMAIN llm_outcome[1].value.json
    /\ Len(llm_outcome[1].value.json.criteria_breakdown) = 1

\* C2: when the service answers the grading request for the sample rubric with
\* the well-formed evaluation awarding 35/25/18/9, the report has
\* overall_score = 87 and max_possible_score = 100.
C2_EndToEndSampleScore ==
    (/\ final_grade # None
     /\ rubric = SampleRubric
     /\ llm_outcome = Some(Return(JsonText(SampleEvaluation))))
        => /\ final_grade[1].overall_score = 87
           /\ final_grade[1].max_possible_score = 100

\* C3: on any failure of the language-model evaluation, _evaluate_with_llm
\* does not raise and returns exactly the degraded result.
C3_FailureGivesDegradedResult ==
    EvaluationFailed =>
        /\ error = "none"
        /\ llm_results =
             Some([summary_feedback |-> "Error: Could not get evaluation from the AI model.",
                   criteria_breakdown |-> <<>>])

\* C3 witness: the service returned a body that is not JSON and the method has
\* returned.
C3_Witness ==
    /\ llm_outcome = Some(Return(Malformed))
    /\ llm_results # None
    /\ pc = "compile"

\* C4: whenever the evaluation's criteria_breakdown is the empty list, the
\* report has overall_score = 0 and print_report completes without raising.
C4_DegradedScoresZeroAndRenders ==
    (/\ final_grade # None
     /\ "criteria_breakdown" \in DOMAIN llm_results[1]
     /\ llm_results[1].criteria_breakdown = <<>>)
        => /\ final_grade[1].overall_score = 0
           /\ pc # "failed"
           /\ error = "none"
           /\ (pc = "done" => rendered)

\* C4 witness: the degraded result of _evaluate_with_llm has been compiled and
\* rendered.
C4_Witness ==
    /\ llm_results = Some(DegradedResult)
    /\ final_grade # None
    /\ final_grade[1].overall_score = 0
    /\ pc = "done"
    /\ rendered

\* C5 (as stated): no collaborator failure prevents the report: the run never
\* ends in the entry point's exception handler, and it ends with the report
\* compiled and rendered.
C5_NoFailurePreventsReport ==
    /\ pc # "failed"
    /\ (pc = "done" => rendered /\ final_grade # None)

\* C5 (amended): a failed grammar tool initialisation and a failed
\* language-model call are absorbed and the run ends with the report compiled
\* and rendered; the run ends without a report only when the Agent
\* construction, the readability computation or the grammar check of the
\* paper raised; the run stops nowhere else.
C5_OnlyUncaughtFailuresPreventReport ==
    /\ pc = "failed" =>
          /\ error \in {"Agent", "textstat.flesch_reading_ease", "lang_tool.check"}
          /\ final_grade = None
          /\ llm_outcome = None
    /\ pc = "done" => rendered /\ final_grade # None /\ error = "none"
    /\ pc \notin {"done", "failed"} => ENABLED Next

\* C5 witness: the grammar tool failed to initialise, the language-model call
\* raised, and the report was rendered.
C5_Witness ==
    /\ lang_tool = "None"
    /\ llm_outcome = Some(Raise)
    /\ pc = "done"
    /\ rendered
    /\ final_grade # None

\* C6 (as stated): with the grammar tool unavailable, every
\* _check_objective_metrics call returns a grammar-error count of 0 without
\* calling the grammar service and without raising.
C6_NoToolAlwaysReturnsZero ==
    (lang_tool = "None" /\ pc \notin {"init", "metrics"}) =>
        /\ objective_results # None
        /\ objective_results[1].grammar_and_spelling_errors = 0
        /\ grammar_calls = 0

\* C6 (amended): with the grammar tool unavailable, construction has
\* succeeded, the grammar service is never called and never the source of an
\* exception, every metrics dict returned has a grammar-error count of 0, and
\* the call raises only when the readability computation raised.
C6_NoToolZeroUnlessReadabilityRaises ==
    lang_tool = "None" =>
        /\ attrs = InitAttributes
        /\ grammar_calls = 0
        /\ error \notin {"LanguageTool", "lang_tool.check"}
        /\ (objective_results # None =>
                objective_results[1].grammar_and_spelling_errors = 0)
        /\ (pc \notin {"init", "metrics"} /\ objective_results = None =>
                pc = "failed" /\ error = "textstat.flesch_reading_ease")

\* C6 witness: the tool is unavailable and the metrics of a one-word paper
\* were returned with a grammar-error count of 0.
C6_Witness ==
    /\ lang_tool = "None"
    /\ objective_results # None
    /\ objective_results[1].word_count = 1
    /\ objective_results[1].grammar_and_spelling_errors = 0
    /\ grammar_calls = 0

\* C7: overall_score is the sum of score over the entries of the evaluation's
\* criteria_breakdown, an entry without score counting 0 and an evaluation
\* without criteria_breakdown counting 0 in total.
C7_OverallScoreIsSumOfScores ==
    final_grade # None =>
        final_grade[1].overall_score =
            IF "criteria_breakdown" \in DOMAIN llm_results[1]
            THEN FieldTotal(llm_results[1].criteria_breakdown, "score")
            ELSE 0

\* C7 witness: a compiled breakdown of an entry scoring 35 and an entry without
\* a score, totalling 35.
C7_Witness ==
    /\ final_grade # None
    /\ "criteria_breakdown" \in DOMAIN llm_results[1]
    /\ Len(llm_results[1].criteria_breakdown) = 2
    /\ "score" \in DOMAIN llm_results[1].criteria_breakdown[1]
    /\ "score" \notin DOMAIN llm_results[1].criteria_breakdown[2]
    /\ final_grade[1].overall_score = 35

C9_RequestsLowTemperatureJson ==
    \A i \in 1..Len(requests) :
        /\ "temperature" \in DOMAIN requests[i]
        /\ requests[i].temperature = LowTemperature
        /\ "response_format" \in DOMAIN requests[i]
        /\ requests[i].response_format = "json_object"

\* C10: the report's summary_feedback and criteria_breakdown are the
\* evaluation's values (None for an absent key), entry for entry, and its
\* objective_metrics are the metrics handed in.
C10_EvaluationCopiedUnchanged ==
    final_grade # None =>
        /\ IF "summary_feedback" \in DOMAIN llm_results[1]
           THEN final_grade[1].summary_feedback = Some(llm_results[1].summary_feedback)
           ELSE final_grade[1].summary_feedback = None
        /\ IF "criteria_breakdown" \in DOMAIN llm_results[1]
           THEN /\ final_grade[1].criteria_breakdown # None
                /\ Len(final_grade[1].criteria_breakdown[1])
                     = Len(llm_results[1].criteria_breakdown)
                /\ \A i \in 1..Len(llm_results[1].criteria_breakdown) :
                      final_grade[1].criteria_breakdown[1][i]
                        = llm_results[1].criteria_breakdown[i]
           ELSE final_grade[1].criteria_breakdown = None
        /\ final_grade[1].objective_metrics = objective_results[1]

\* C10 witness: a compiled report of two different entries, the second
\* without a score and the first out of range, with a summary.
C10_Witness ==
    /\ final_grade # None
    /\ "summary_feedback" \in DOMAIN llm_results[1]
    /\ "criteria_breakdown" \in DOMAIN llm_results[1]
    /\ Len(llm_results[1].criteria_breakdown) = 2
    /\ "score" \in DOMAIN llm_results[1].criteria_breakdown[1]
    /\ llm_results[1].criteria_breakdown[1].score = 45
    /\ "score" \notin DOMAIN llm_results[1].criteria_breakdown[2]
    /\ Len(final_grade[1].criteria_breakdown[1]) = 2
    /\ objective_results[1].grammar_and_spelling_errors = 1

====
